---- MODULE Spec2Model ----
(***************************************************************************)
(* Model of the Upspin Dropbox storage backend                             *)
(* (cloud/storage/dropbox/dropbox.go): the adapter's four operations, its  *)
(* constructor, its error classification, and the remote service and       *)
(* transport it talks to.                                                  *)
(*                                                                         *)
(* Strings the code takes apart or builds (references, paths, error        *)
(* summaries, cursors) are sequences of characters; the empty string is    *)
(* the empty sequence.  Opaque strings (URLs, operation names, bearer      *)
(* tokens, option keys) are TLA+ strings.  JSON texts are records of their *)
(* members.                                                                *)
(***************************************************************************)
EXTENDS Integers, Sequences, FiniteSets, TLC

VARIABLES
    client,      \* the adapter returned by New (dropboxImpl), or Nil
    maxResults,  \* package variable maxResults
    files,       \* the remote service's store: path -> contents
    last,        \* the last call made: operation, arguments, requests sent, return values
    known,       \* history: per reference, what the last write or delete of it established
    walk,        \* history: the listing walk in progress
    storeConfig  \* cfg.StoreConfig of the server configuration file, empty until written

vars == <<client, maxResults, files, last, known, walk, storeConfig>>

----------------------------------------------------------------------------
(* Bounds of the model *)

MaxByte == 0     \* largest byte value in a blob
MaxLimit == 2    \* largest page limit a test sets maxResults to

\* Blobs: the empty one and those of one byte.
Bytes == 0..MaxByte
Blobs == {<<>>} \cup {<<b>> : b \in Bytes}

\* References used by Put, Download and Delete.
Refs == {<<"a">>, <<"b">>}

\* References present in the stores a listing walk starts from.
ListRefs == {<<"a">>, <<"b">>, <<"c">>, <<"d">>}

\* The order in which the remote service enumerates a folder.
ServiceOrder == <<(<<"c">>), (<<"a">>), (<<"d">>), (<<"b">>)>>

ValidToken == "tok"
OptKeys == {"token", "Token"}
OptValues == {"", ValidToken}

----------------------------------------------------------------------------
(* Strings *)

EmptyString == <<>>
Slash == <<"/">>

NotFoundMarker == <<"n", "o", "t", "_", "f", "o", "u", "n", "d">>
SumPathNotFound == <<"p", "a", "t", "h", "/", "n", "o", "t", "_", "f", "o", "u", "n", "d", "/">>
SumLookupNotFound == <<"p", "a", "t", "h", "_", "l", "o", "o", "k", "u", "p", "/", "n", "o", "t", "_", "f", "o", "u", "n", "d", "/">>
SumConflict == <<"p", "a", "t", "h", "/", "c", "o", "n", "f", "l", "i", "c", "t", "/", "f", "i", "l", "e", "/">>
SumTooManyWrites == <<"t", "o", "o", "_", "m", "a", "n", "y", "_", "w", "r", "i", "t", "e", "_", "o", "p", "e", "r", "a", "t", "i", "o", "n", "s", "/">>
SumReset == <<"r", "e", "s", "e", "t", "/">>
RenameSuffix == <<" ", "(", "1", ")">>

\* strings.Contains(s, sub)
Contains(s, sub) ==
    \E i \in 0..(Len(s) - Len(sub)) : SubSeq(s, i + 1, i + Len(sub)) = sub

Min(a, b) == IF a < b THEN a ELSE b

----------------------------------------------------------------------------
(* Constants of the code *)

apiToken == "token"
DefaultMaxResults == 1000
StatusOK == 200
StatusConflict == 409

OpNew == "cloud/storage/dropbox.New"
OpDownload == "cloud/storage/dropbox.Download"
OpPut == "cloud/storage/dropbox.Put"
OpDelete == "cloud/storage/dropbox.Delete"
OpList == "cloud/storage/dropbox.List"

UrlDownload == "https://content.dropboxapi.com/2/files/download"
UrlUpload == "https://content.dropboxapi.com/2/files/upload"
UrlDelete == "https://api.dropboxapi.com/2/files/delete_v2"
UrlListFolder == "https://api.dropboxapi.com/2/files/list_folder"
UrlListContinue == "https://api.dropboxapi.com/2/files/list_folder/continue"

Nil == [type |-> "nil"]

----------------------------------------------------------------------------
(* Bodies and JSON *)

NoBody == [kind |-> "none"]
BytesBody(b) == [kind |-> "bytes", data |-> b]
JsonBody(v) == [kind |-> "json", value |-> v]
TextBody == [kind |-> "text"]
ReadFailure == [kind |-> "readfail"]

\* A member of a JSON object, or the zero value of the Go field when absent.
Field(v, name, zero) == IF name \in DOMAIN v THEN v[name] ELSE zero

----------------------------------------------------------------------------
(* Errors *)

TransportError == [type |-> "transport"]
JsonError == [type |-> "json"]
StatusError(status, body) == [type |-> "errorf", status |-> status, body |-> body]

\* type DropboxAPIError struct { ErrorSummary string }
DropboxAPIError(summary) == [type |-> "DropboxAPIError", ErrorSummary |-> summary]

\* Mutant: every API error counts as not found.
StatusCodeAlways404(e) == 404

\* func (e DropboxAPIError) StatusCode() int
StatusCode(e) == IF Contains(e.ErrorSummary, NotFoundMarker) THEN 404 ELSE 0

\* errors.E(op, kind, err)
E(op, kind, err) == [type |-> "upspin", Op |-> op, Kind |-> kind, Err |-> err]

IsError(e) == e.type # "nil"
ErrKind(e) == IF e.type = "upspin" THEN e.Kind ELSE "unclassified"
ErrOp(e) == IF e.type = "upspin" THEN e.Op ELSE "none"

----------------------------------------------------------------------------
(* Requests *)

EmptyArg == [kind |-> "empty"]      \* the arg string ""
NoHeader == [kind |-> "absent"]     \* a header that was not added
JsonArg(v) == [kind |-> "json", value |-> v]

\* func (d *dropboxImpl) newRequest(path, body, arg).  http.NewRequest cannot
\* fail for the constant URLs the operations pass, so no error is returned.
newRequest(d, path, body, arg) ==
    [method |-> "POST",
     url |-> path,
     body |-> body,
     header |-> [Authorization |-> "Bearer " \o d.token,
                 ContentType |-> "application/octet-stream",
                 DropboxAPIArg |-> IF arg # EmptyArg THEN arg ELSE NoHeader]]

\* req.Header.Set("Content-Type", v)
SetContentType(req, v) == [req EXCEPT !.header.ContentType = v]

\* Mutant: the path without its leading separator.
PathArgNoSlash(ref) == [path |-> ref]

\* json.Marshal(struct{Path}{"/" + ref}) in Download and Delete
PathArg(ref) == [path |-> Slash \o ref]

\* Mutant: write mode "add" instead of "overwrite".
PutArgAdd(ref) ==
    [path |-> Slash \o ref, mode |-> "add", autorename |-> TRUE, mute |-> FALSE]

\* Mutant: autorename switched off.
PutArgNoRename(ref) ==
    [path |-> Slash \o ref, mode |-> "overwrite", autorename |-> FALSE, mute |-> FALSE]

\* json.Marshal(struct{Path, Mode, Rename, Mute}{...}) in Put
PutArg(ref) ==
    [path |-> Slash \o ref, mode |-> "overwrite", autorename |-> TRUE, mute |-> FALSE]

\* Mutant: the limit is the default whatever maxResults is.
ListFolderArgDefault(limit) == [path |-> EmptyString, limit |-> DefaultMaxResults]

\* json.Marshal(struct{Path, Limit}{"", maxResults}) in List
ListFolderArg(limit) == [path |-> EmptyString, limit |-> limit]

\* json.Marshal(struct{Cursor}{token}) in List
ListContinueArg(token) == [cursor |-> token]

----------------------------------------------------------------------------
(* The remote service: what the repository's tests expect of it *)

Reply(status, body) == [status |-> status, body |-> body]
ApiFailure(summary) == Reply(StatusConflict, JsonBody([error_summary |-> summary]))
BadRequest == Reply(400, TextBody)

Store(fs, p, data) == [q \in DOMAIN fs \cup {p} |-> IF q = p THEN data ELSE fs[q]]
Remove(fs, p) == [q \in DOMAIN fs \ {p} |-> fs[q]]

Metadata(fs, p) == [tag |-> "file", name |-> Tail(p), size |-> Len(fs[p])]

\* The folder's paths in the order the service enumerates them.
OrderedPaths ==
    [i \in 1..Len(ServiceOrder) |-> Slash \o ServiceOrder[i]]
        \o [i \in 1..Len(ServiceOrder) |-> Slash \o ServiceOrder[i] \o RenameSuffix]

IsStored(fs, p) == p \in DOMAIN fs

Listing(fs) ==
    LET Stored(p) == IsStored(fs, p)
    IN SelectSeq(OrderedPaths, Stored)

\* The entries all[offset+1 .. to] as a list_folder result.
PageOf(fs, all, offset, to, limit) ==
    Reply(StatusOK, JsonBody(
        [entries |-> [i \in 1..(to - offset) |-> Metadata(fs, all[offset + i])],
         cursor |-> <<to, limit>>,
         has_more |-> to < Len(all)]))

\* One page of the folder: at most limit entries from offset on, a cursor
\* naming where the next page starts, and whether entries remain.
PageFrom(fs, all, offset, limit) ==
    IF offset >= Len(all)
    THEN PageOf(fs, all, offset, offset, limit)
    ELSE PageOf(fs, all, offset, Min(offset + limit, Len(all)), limit)

Page(fs, offset, limit) == PageFrom(fs, Listing(fs), offset, limit)

ServiceUpload(fs, req) ==
    LET h == req.header IN
    IF h.DropboxAPIArg.kind # "json" \/ req.body.kind # "bytes"
          \/ h.ContentType # "application/octet-stream"
    THEN [resp |-> BadRequest, files |-> fs]
    ELSE LET a == h.DropboxAPIArg.value
             data == req.body.data
             free == a.mode = "overwrite" \/ ~IsStored(fs, a.path) \/ fs[a.path] = data
             target == IF free THEN a.path ELSE a.path \o RenameSuffix
         IN IF ~free /\ ~a.autorename
            THEN [resp |-> ApiFailure(SumConflict), files |-> fs]
            ELSE LET fs2 == Store(fs, target, data)
                 IN [resp |-> Reply(StatusOK, JsonBody(Metadata(fs2, target))), files |-> fs2]

ServiceDownload(fs, req) ==
    LET h == req.header IN
    IF h.DropboxAPIArg.kind # "json"
    THEN [resp |-> BadRequest, files |-> fs]
    ELSE LET p == h.DropboxAPIArg.value.path
         IN IF IsStored(fs, p)
            THEN [resp |-> Reply(StatusOK, BytesBody(fs[p])), files |-> fs]
            ELSE [resp |-> ApiFailure(SumPathNotFound), files |-> fs]

ServiceDelete(fs, req) ==
    IF req.header.ContentType # "application/json" \/ req.body.kind # "json"
    THEN [resp |-> BadRequest, files |-> fs]
    ELSE LET p == req.body.value.path
         IN IF IsStored(fs, p)
            THEN [resp |-> Reply(StatusOK, JsonBody([metadata |-> Metadata(fs, p)])),
                  files |-> Remove(fs, p)]
            ELSE [resp |-> ApiFailure(SumLookupNotFound), files |-> fs]

ServiceListFolder(fs, req) ==
    IF req.header.ContentType # "application/json" \/ req.body.kind # "json"
    THEN [resp |-> BadRequest, files |-> fs]
    ELSE LET a == req.body.value
         IN IF a.path # EmptyString \/ a.limit < 1 \/ a.limit > 2000
            THEN [resp |-> BadRequest, files |-> fs]
            ELSE [resp |-> Page(fs, 0, a.limit), files |-> fs]

ServiceListContinue(fs, req) ==
    IF req.header.ContentType # "application/json" \/ req.body.kind # "json"
    THEN [resp |-> BadRequest, files |-> fs]
    ELSE LET c == req.body.value.cursor
         IN IF Len(c) # 2
            THEN [resp |-> ApiFailure(SumReset), files |-> fs]
            ELSE [resp |-> Page(fs, c[1], c[2]), files |-> fs]

Service(fs, req) ==
    IF req.header.Authorization # "Bearer " \o ValidToken
    THEN [resp |-> Reply(401, TextBody), files |-> fs]
    ELSE CASE req.url = UrlUpload -> ServiceUpload(fs, req)
           [] req.url = UrlDownload -> ServiceDownload(fs, req)
           [] req.url = UrlDelete -> ServiceDelete(fs, req)
           [] req.url = UrlListFolder -> ServiceListFolder(fs, req)
           [] req.url = UrlListContinue -> ServiceListContinue(fs, req)
           [] OTHER -> [resp |-> Reply(404, TextBody), files |-> fs]

----------------------------------------------------------------------------
(* The HTTP round trip: d.client.Do(req) *)

\* What can happen to one request on its way to the service and back.
Faults == {"none", "lost_response", "read_error", "http_500",
           "http_404_nf", "http_409_text", "http_409_other"}

\* A 200 response whose body is not the JSON the endpoint documents.
ListFaults == Faults \cup {"lost_request", "http_409_nosummary",
                           "http_200_text", "http_200_empty_object"}

\* The outcome of a round trip in which the service, had the request reached
\* it, would have done s.
Outcome(fs, s, fault) ==
    LET Answer(resp) == [err |-> Nil, resp |-> resp, files |-> fs]
    IN CASE fault = "none" -> [err |-> Nil, resp |-> s.resp, files |-> s.files]
         [] fault = "lost_request" -> [err |-> TransportError, resp |-> Nil, files |-> fs]
         [] fault = "lost_response" -> [err |-> TransportError, resp |-> Nil, files |-> s.files]
         [] fault = "read_error" ->
                [err |-> Nil, resp |-> Reply(s.resp.status, ReadFailure), files |-> s.files]
         [] fault = "http_500" -> Answer(Reply(500, TextBody))
         [] fault = "http_404_nf" ->
                Answer(Reply(404, JsonBody([error_summary |-> SumPathNotFound])))
         [] fault = "http_409_text" -> Answer(Reply(StatusConflict, TextBody))
         [] fault = "http_409_nosummary" ->
                Answer(Reply(StatusConflict, JsonBody([error |-> "other"])))
         [] fault = "http_409_other" -> Answer(ApiFailure(SumTooManyWrites))
         [] fault = "http_200_text" -> Answer(Reply(StatusOK, TextBody))
         [] fault = "http_200_empty_object" ->
                Answer(Reply(StatusOK, JsonBody([tag |-> "folder"])))

Do(fs, req, fault) == Outcome(fs, Service(fs, req), fault)

----------------------------------------------------------------------------
(* The adapter *)

\* json.Unmarshal(body, &dbxErr) in doRequest
UnmarshalError(body) ==
    IF body.kind = "json"
    THEN DropboxAPIError(Field(body.value, "error_summary", EmptyString))
    ELSE JsonError

\* func (d *dropboxImpl) doRequest(req).  sent lists the requests handed to
\* the client, resp is the response it received (Nil when none arrived).
\* doRequest after d.client.Do(req) returned rt.
Received(req, rt) ==
    LET Return(body, err) ==
            [body |-> body, err |-> err, files |-> rt.files, sent |-> <<req>>,
             resp |-> rt.resp]
    IN IF IsError(rt.err) THEN Return(Nil, rt.err)
       ELSE IF rt.resp.body = ReadFailure THEN Return(Nil, TransportError)
       ELSE IF rt.resp.status = StatusConflict
            THEN Return(Nil, UnmarshalError(rt.resp.body))
       ELSE IF rt.resp.status # StatusOK
            THEN Return(Nil, StatusError(rt.resp.status, rt.resp.body))
       ELSE Return(rt.resp.body, Nil)

\* Mutant: a failed request is sent once more.
RetryAfter(req, first) ==
    IF IsError(first.err)
    THEN [Received(req, Do(first.files, req, "none")) EXCEPT !.sent = <<req, req>>]
    ELSE first

doRequestRetry(d, req, fs, fault) == RetryAfter(req, Received(req, Do(fs, req, fault)))

doRequest(d, req, fs, fault) == Received(req, Do(fs, req, fault))

\* Mutant: every failure is an I/O error.
DownloadErrorAlwaysIO(err) == E(OpDownload, "IO", err)

\* The error Download returns for a failed doRequest.
DownloadError(err) ==
    IF err.type = "DropboxAPIError" /\ StatusCode(err) = 404
    THEN E(OpDownload, "NotExist", err)
    ELSE E(OpDownload, "IO", err)

\* func (d *dropboxImpl) Download(ref string) ([]byte, error)
DownloadReturn(r) ==
    [data |-> IF IsError(r.err) THEN Nil ELSE r.body,
     err |-> IF IsError(r.err) THEN DownloadError(r.err) ELSE Nil,
     files |-> r.files, sent |-> r.sent, resp |-> r.resp]

Download(d, ref, fs, fault) ==
    DownloadReturn(
        doRequest(d, newRequest(d, UrlDownload, NoBody, JsonArg(PathArg(ref))), fs, fault))

\* func (d *dropboxImpl) Put(ref string, contents []byte) error
PutReturn(r) ==
    [err |-> IF IsError(r.err) THEN E(OpPut, "IO", r.err) ELSE Nil,
     files |-> r.files, sent |-> r.sent, resp |-> r.resp]

Put(d, ref, contents, fs, fault) ==
    PutReturn(
        doRequest(d, newRequest(d, UrlUpload, BytesBody(contents), JsonArg(PutArg(ref))),
                  fs, fault))

\* func (d *dropboxImpl) Delete(ref string) error
DeleteReturn(r) ==
    [err |-> IF IsError(r.err) THEN E(OpDelete, "IO", r.err) ELSE Nil,
     files |-> r.files, sent |-> r.sent, resp |-> r.resp]

Delete(d, ref, fs, fault) ==
    DeleteReturn(
        doRequest(d, SetContentType(
                         newRequest(d, UrlDelete, JsonBody(PathArg(ref)), EmptyArg),
                         "application/json"),
                  fs, fault))

\* The request List builds: the first-page request, replaced by the
\* continue request when the token is not empty.
ListRequest(d, token, limit) ==
    LET u == IF token # EmptyString THEN UrlListContinue ELSE UrlListFolder
        arg == IF token # EmptyString THEN ListContinueArg(token) ELSE ListFolderArg(limit)
    IN SetContentType(newRequest(d, u, JsonBody(arg), EmptyArg), "application/json")

\* The error List returns for a failed doRequest or json.Unmarshal.
ListError(err) == err

\* objs.Items mapped to []upspin.ListRefsItem
ListItems(items) ==
    [i \in 1..Len(items) |->
        [Ref |-> Field(items[i], "name", EmptyString), Size |-> Field(items[i], "size", 0)]]

\* Mutant: the cursor is returned whether or not has_more is set.
NextTokenAlways(more, cursor) == cursor

\* nextToken after "if objs.More { nextToken = objs.NextPageToken }"
NextToken(more, cursor) == IF more THEN cursor ELSE EmptyString

\* func (d *dropboxImpl) List(token string) (refs, nextToken, err)
ListReturn(r) ==
    LET Return(refs, next, err) ==
            [refs |-> refs, nextToken |-> next, err |-> err,
             files |-> r.files, sent |-> r.sent, resp |-> r.resp]
    IN IF IsError(r.err) THEN Return(<<>>, EmptyString, ListError(r.err))
       ELSE IF r.body.kind # "json" THEN Return(<<>>, EmptyString, ListError(JsonError))
       ELSE LET objs == r.body.value
            IN Return(ListItems(Field(objs, "entries", <<>>)),
                      NextToken(Field(objs, "has_more", FALSE),
                                Field(objs, "cursor", EmptyString)),
                      Nil)

List(d, token, limit, fs, fault) ==
    ListReturn(doRequest(d, ListRequest(d, token, limit), fs, fault))

\* Mutant: an empty token counts as missing.
HasTokenNonEmpty(opts) == apiToken \in DOMAIN opts /\ opts[apiToken] # ""

\* Whether New's lookup opts.Opts[apiToken] finds the option.
HasToken(opts) == apiToken \in DOMAIN opts

\* func New(opts *storage.Opts) (storage.Storage, error)
New(opts) ==
    IF ~HasToken(opts)
    THEN [impl |-> Nil, err |-> E(OpNew, "Invalid", [type |-> "errorf"]), sent |-> <<>>]
    ELSE [impl |-> [type |-> "dropboxImpl", token |-> opts[apiToken]], err |-> Nil,
          sent |-> <<>>]

----------------------------------------------------------------------------
(* Backend registration and the server configuration *)

OpDial == "cloud/storage.Dial"

\* The name init registers New under: storage.Register("Dropbox", New).
RegisteredName == "Dropbox"

\* The backend names storage.Dial finds a constructor for.
Registry == {RegisteredName}

\* The name the setup command writes after "backend=".
SetupBackend == "DROPBOX"

\* cfg.StoreConfig as main assigns it: "backend=..." and "token=" + token.
StoreConfig(token) ==
    <<[key |-> "backend", value |-> SetupBackend], [key |-> "token", value |-> token]>>

\* The value of the entry key=value of a store configuration.
ConfigValue(cfg, key) ==
    cfg[CHOOSE i \in 1..Len(cfg) : cfg[i].key = key].value

\* storage.Dial(name, opts): the constructor registered under exactly that
\* name, called with the options; an error when there is none.
Dial(name, opts) ==
    IF name \in Registry
    THEN New(opts)
    ELSE [impl |-> Nil, err |-> E(OpDial, "Invalid", [type |-> "errorf"]), sent |-> <<>>]

----------------------------------------------------------------------------
(* The state machine *)

NoCall == [op |-> "none", sent |-> <<>>]
Unknown == [state |-> "unknown"]
Written(b) == [state |-> "put", data |-> b]
Deleted == [state |-> "deleted"]
Idle == [stage |-> "idle"]

\* The option bags New is called with.
OptsSet == UNION {[D -> OptValues] : D \in SUBSET OptKeys}

\* The page limits maxResults takes: the default and what tests set.
Limits == (1..MaxLimit) \cup {DefaultMaxResults}

PathsOf(S) == {Slash \o r : r \in S}

\* The stores a listing walk can find: any of ListRefs, each with some contents.
Stores == UNION {[PathsOf(S) -> Blobs] : S \in SUBSET ListRefs}

\* The walk after a List call that returned without error.
WalkStep(w, token, res, n, limit) ==
    LET page == [i \in 1..Len(res.refs) |-> res.refs[i].Ref]
        stage == IF res.nextToken = EmptyString THEN "done" ELSE "open"
    IN IF token = EmptyString
       THEN [stage |-> stage, n |-> n, limit |-> limit, calls |-> 1,
             seen |-> page, pages |-> <<Len(page)>>, next |-> res.nextToken]
       ELSE [w EXCEPT !.stage = stage, !.calls = @ + 1, !.seen = @ \o page,
                      !.pages = Append(@, Len(page)), !.next = res.nextToken]

Init ==
    /\ client = Nil
    /\ maxResults = DefaultMaxResults
    /\ files = <<>>
    /\ last = NoCall
    /\ known = [r \in Refs |-> Unknown]
    /\ walk = Idle
    /\ storeConfig = <<>>

\* main of upspin-setupstorage-dropbox: the store configuration it writes
\* once the OAuth2 exchange has yielded the access token.
SetupStorage ==
    /\ client = Nil
    /\ storeConfig = <<>>
    /\ storeConfig' = StoreConfig(ValidToken)
    /\ last' = [op |-> "SetupStorage", sent |-> <<>>]
    /\ UNCHANGED <<client, maxResults, files, known, walk>>

\* upspinserver-dropbox started from the written configuration: it dials
\* the backend the configuration names with the options it lists.
ServerDial ==
    /\ client = Nil
    /\ storeConfig # <<>>
    /\ \E res \in {Dial(ConfigValue(storeConfig, "backend"),
                         [k \in {apiToken} |-> ConfigValue(storeConfig, k)])} :
          /\ client' = res.impl
          /\ last' = [op |-> "Dial", backend |-> ConfigValue(storeConfig, "backend"),
                      impl |-> res.impl, err |-> res.err, sent |-> res.sent]
    /\ UNCHANGED <<maxResults, files, known, walk, storeConfig>>

\* storage.Dial(...) reaching New, once per process until it succeeds.
NewCall ==
    /\ client = Nil
    /\ \E opts \in OptsSet :
          \E res \in {New(opts)} :
             /\ client' = res.impl
             /\ last' = [op |-> "New", opts |-> opts, impl |-> res.impl,
                         err |-> res.err, sent |-> res.sent]
    /\ UNCHANGED <<maxResults, files, known, walk, storeConfig>>

\* A test overriding maxResults, or restoring it.
SetMaxResults ==
    /\ \E l \in Limits : l # maxResults /\ maxResults' = l
    /\ UNCHANGED <<client, files, last, known, walk, storeConfig>>

PutCall ==
    /\ client # Nil
    /\ \E r \in Refs, b \in Blobs, f \in Faults :
          \E res \in {Put(client, r, b, files, f)} :
             /\ files' = res.files
             /\ last' = [op |-> "Put", ref |-> r, contents |-> b, fault |-> f,
                         was |-> known[r], err |-> res.err, sent |-> res.sent, resp |-> res.resp]
             /\ known' = [known EXCEPT ![r] =
                             IF IsError(res.err) THEN Unknown ELSE Written(b)]
             /\ walk' = IF res.files = files THEN walk ELSE Idle
    /\ UNCHANGED <<client, maxResults, storeConfig>>

DeleteCall ==
    /\ client # Nil
    /\ \E r \in Refs, f \in Faults :
          \E res \in {Delete(client, r, files, f)} :
             /\ files' = res.files
             /\ last' = [op |-> "Delete", ref |-> r, fault |-> f,
                         err |-> res.err, sent |-> res.sent, resp |-> res.resp]
             /\ known' = [known EXCEPT ![r] =
                             IF IsError(res.err) THEN Unknown ELSE Deleted]
             /\ walk' = IF res.files = files THEN walk ELSE Idle
    /\ UNCHANGED <<client, maxResults, storeConfig>>

DownloadCall ==
    /\ client # Nil
    /\ \E r \in Refs, f \in Faults :
          \E res \in {Download(client, r, files, f)} :
             /\ files' = res.files
             /\ last' = [op |-> "Download", ref |-> r, fault |-> f, was |-> known[r],
                         data |-> res.data, err |-> res.err, sent |-> res.sent,
                         resp |-> res.resp]
    /\ UNCHANGED <<client, maxResults, known, walk, storeConfig>>

\* List called with the empty token, or with the token the walk's previous
\* call returned.  A walk goes on while its calls succeed undisturbed.
ListCall ==
    /\ client # Nil
    /\ \E token \in {EmptyString} \cup (IF walk.stage = "open" THEN {walk.next} ELSE {}),
          f \in ListFaults :
          \E res \in {List(client, token, maxResults, files, f)} :
             /\ files' = res.files
             /\ last' = [op |-> "List", token |-> token, limit |-> maxResults,
                         fault |-> f, refs |-> res.refs, nextToken |-> res.nextToken,
                         err |-> res.err, sent |-> res.sent, resp |-> res.resp]
             /\ walk' = IF IsError(res.err) \/ f # "none" THEN Idle
                        ELSE WalkStep(walk, token, res, Cardinality(DOMAIN files),
                                      maxResults)
    /\ UNCHANGED <<client, maxResults, known, storeConfig>>

Next ==
    \/ SetupStorage
    \/ ServerDial
    \/ NewCall
    \/ SetMaxResults
    \/ PutCall
    \/ DeleteCall
    \/ DownloadCall
    \/ ListCall

Spec == Init /\ [][Next]_vars

\* A listing walk over a store that does not change: the adapter has been
\* constructed, the store holds any of ListRefs, and only List is called.
InitList ==
    /\ client = [type |-> "dropboxImpl", token |-> ValidToken]
    /\ maxResults \in Limits
    /\ files \in Stores
    /\ last = NoCall
    /\ known = [r \in Refs |-> Unknown]
    /\ walk = Idle
    /\ storeConfig = <<>>

NextList == ListCall

SpecList == InitList /\ [][NextList]_vars

----------------------------------------------------------------------------
(* Properties *)

IsCall(op) == last.op = op
Succeeded == ~IsError(last.err)
Undisturbed == last.fault = "none"

\* C1: round trip.  When Put(R, B) has succeeded and no later Put or Delete of
\* R has been attempted, a Download(R) that returns data returns exactly B, and
\* it does return data whenever its round trip is undisturbed.
C1_RoundTrip ==
    (IsCall("Download") /\ last.was.state = "put") =>
        /\ Succeeded => last.data = BytesBody(last.was.data)
        /\ Undisturbed => Succeeded
        /\ ~Succeeded => last.data = Nil

C1_Witness ==
    /\ IsCall("Download") /\ last.was.state = "put"
    /\ Len(last.was.data) > 0
    /\ Succeeded /\ last.data = BytesBody(last.was.data)

\* C2: overwrite.  When Put(R, B2) succeeds after Put(R, B1) has, the store
\* holds B2 at "/"+R; the store holds the contents of the last successful Put
\* of a reference for as long as no later Put or Delete of it is attempted, so
\* that Download(R) returns B2; and nothing is ever stored under a path other
\* than "/"+reference.
C2_Overwrite ==
    /\ DOMAIN files \subseteq PathsOf(Refs)
    /\ (IsCall("Put") /\ Succeeded /\ last.was.state = "put") =>
          /\ IsStored(files, Slash \o last.ref)
          /\ files[Slash \o last.ref] = last.contents
          /\ known[last.ref].data = last.contents
    /\ \A r \in Refs :
          known[r].state = "put" =>
              /\ IsStored(files, Slash \o r)
              /\ files[Slash \o r] = known[r].data
              /\ Download(client, r, files, "none").data = BytesBody(known[r].data)

C2_Witness ==
    /\ IsCall("Put") /\ Succeeded /\ last.was.state = "put"
    /\ last.was.data # last.contents
    /\ files[Slash \o last.ref] = last.contents

\* C3: delete visibility.  After Delete(R) has succeeded and before any later
\* Put of R is attempted, Download(R) fails, and whenever its round trip is
\* undisturbed the failure is errors.NotExist, not errors.IO.
C3_DeleteVisibility ==
    (IsCall("Download") /\ last.was.state = "deleted") =>
        /\ ~Succeeded
        /\ last.data = Nil
        /\ Undisturbed => ErrKind(last.err) = "NotExist"
        /\ ErrOp(last.err) = OpDownload

C3_Witness ==
    /\ IsCall("Download") /\ last.was.state = "deleted" /\ Undisturbed
    /\ ErrKind(last.err) = "NotExist"

NoDuplicates(seq) == \A i, j \in 1..Len(seq) : seq[i] = seq[j] => i = j
Range(seq) == {seq[i] : i \in 1..Len(seq)}

\* C4: pagination.  A walk over an unchanging store of N >= 1 objects with
\* page limit L dividing N, starting from the empty token and feeding each
\* returned token to the next call: every page has at most L entries, no
\* reference appears twice, every call before call N/L returns a non-empty
\* token, and call N/L returns the empty token having listed all N objects.
C4_Pagination ==
    (walk.stage # "idle" /\ walk.n >= 1 /\ walk.n % walk.limit = 0) =>
        /\ walk.calls <= walk.n \div walk.limit
        /\ \A i \in 1..Len(walk.pages) : walk.pages[i] <= walk.limit
        /\ NoDuplicates(walk.seen)
        /\ walk.calls < walk.n \div walk.limit => walk.next # EmptyString
        /\ walk.calls = walk.n \div walk.limit =>
              /\ walk.next = EmptyString
              /\ Len(walk.seen) = walk.n
              /\ PathsOf(Range(walk.seen)) = DOMAIN files

C4_Witness ==
    /\ walk.stage = "done" /\ walk.n = 4 /\ walk.limit = 2 /\ walk.calls = 2
    /\ Len(walk.seen) = 4

\* C5: for every List call that succeeds, nextToken is the response's cursor
\* when has_more is true and the empty string when it is false, and the
\* returned items are the response's entries in order, name and size unchanged.
C5_ListMapping ==
    (IsCall("List") /\ Succeeded) =>
        LET v == last.resp.body.value
            entries == Field(v, "entries", <<>>)
            more == Field(v, "has_more", FALSE)
        IN /\ more => last.nextToken = v.cursor
           /\ ~more => last.nextToken = EmptyString
           /\ Len(last.refs) = Len(entries)
           /\ \A i \in 1..Len(entries) :
                 /\ last.refs[i].Ref = entries[i].name
                 /\ last.refs[i].Size = entries[i].size

C5_Witness ==
    /\ IsCall("List") /\ Succeeded /\ Undisturbed
    /\ ~last.resp.body.value.has_more
    /\ last.resp.body.value.cursor # EmptyString
    /\ last.nextToken = EmptyString
    /\ Len(last.refs) = 2
    /\ last.refs[1].Ref = <<"d">> /\ last.refs[2].Ref = <<"b">>

\* C6 as stated: New returns errors.Invalid and no adapter whenever the token
\* option is missing or empty, an adapter only for a non-empty token, and
\* sends no request.
C6_Original ==
    IsCall("New") =>
        /\ (~("token" \in DOMAIN last.opts) \/ last.opts["token"] = "") =>
              (last.impl = Nil /\ ErrKind(last.err) = "Invalid")
        /\ last.impl # Nil => last.opts["token"] # ""
        /\ last.sent = <<>>

\* C6 amended: New returns errors.Invalid and no adapter exactly when the
\* "token" key is absent from the options; for any value present under that
\* key, the empty string included, it returns an adapter holding that value
\* and no error; it sends no request either way.
C6_NewRequiresKey ==
    IsCall("New") =>
        /\ ~("token" \in DOMAIN last.opts) =>
              /\ last.impl = Nil
              /\ ErrKind(last.err) = "Invalid"
              /\ ErrOp(last.err) = OpNew
        /\ "token" \in DOMAIN last.opts =>
              /\ last.impl # Nil
              /\ last.impl.token = last.opts["token"]
              /\ last.err = Nil
        /\ last.sent = <<>>

C6_Witness ==
    /\ IsCall("New") /\ "token" \in DOMAIN last.opts /\ last.opts["token"] = ""
    /\ last.impl # Nil /\ last.err = Nil

\* C7: Download returns the response body on HTTP 200; its error is
\* errors.NotExist exactly when the response has status 409 and a body whose
\* error_summary contains "not_found"; every other outcome (409 without the
\* marker or with an unparsable body, another non-200 status whatever its
\* body, a transport failure) is errors.IO.
C7_DownloadClassification ==
    IsCall("Download") =>
        LET r == last.resp
            readable == r # Nil /\ r.body # ReadFailure
            ok == readable /\ r.status = 200
            notFound == /\ readable
                        /\ r.status = 409
                        /\ r.body.kind = "json"
                        /\ "error_summary" \in DOMAIN r.body.value
                        /\ Contains(r.body.value.error_summary, NotFoundMarker)
        IN /\ ok => (last.err = Nil /\ last.data = r.body)
           /\ notFound <=> ErrKind(last.err) = "NotExist"
           /\ (~ok /\ ~notFound) => ErrKind(last.err) = "IO"

C7_Witness ==
    /\ IsCall("Download") /\ last.fault = "http_404_nf"
    /\ last.resp.status = 404
    /\ Contains(last.resp.body.value.error_summary, NotFoundMarker)
    /\ ErrKind(last.err) = "IO"

\* The request Put(ref, contents) is to send, with the given mute flag.
UploadRequestIs(req, ref, contents, mute) ==
    /\ req.url = UrlUpload
    /\ req.header.DropboxAPIArg =
          JsonArg([path |-> Slash \o ref, mode |-> "overwrite",
                   autorename |-> TRUE, mute |-> mute])
    /\ req.body = BytesBody(contents)

\* C8 as stated: the one request of Put(R, B) carries path "/"+R, mode
\* "overwrite", autorename true and mute true, and body B.
C8_Original ==
    IsCall("Put") =>
        /\ Len(last.sent) = 1
        /\ UploadRequestIs(last.sent[1], last.ref, last.contents, TRUE)

\* C8 amended: the one request of Put(R, B) carries path "/"+R, mode
\* "overwrite", autorename true and mute false, and body B.
C8_PutRequest ==
    IsCall("Put") =>
        /\ Len(last.sent) = 1
        /\ UploadRequestIs(last.sent[1], last.ref, last.contents, FALSE)

C8_Witness ==
    /\ IsCall("Put") /\ Len(last.contents) > 0
    /\ last.sent[1].header.DropboxAPIArg.value.mute = FALSE
    /\ last.sent[1].body.data = last.contents

\* C9: a List call that fails returns no entries, the empty token, and an
\* error of kind errors.IO that carries List's operation name.
C9_ListErrors ==
    (IsCall("List") /\ ~Succeeded) =>
        /\ last.refs = <<>>
        /\ last.nextToken = EmptyString
        /\ ErrKind(last.err) = "IO"
        /\ ErrOp(last.err) = OpList

\* C10: every call of Download, Put, Delete or List sends exactly one request,
\* whether it succeeds or fails, and List with a non-empty token sends only
\* the list_folder/continue request, carrying that token unchanged.
C10_OneRequest ==
    (last.op \in {"Download", "Put", "Delete", "List"}) =>
        /\ Len(last.sent) = 1
        /\ (IsCall("List") /\ last.token # EmptyString) =>
              /\ last.sent[1].url = UrlListContinue
              /\ last.sent[1].body = JsonBody([cursor |-> last.token])
        /\ (IsCall("List") /\ last.token = EmptyString) =>
              last.sent[1].url = UrlListFolder

C10_Witness ==
    /\ IsCall("List") /\ last.token # EmptyString /\ ~Succeeded
    /\ Len(last.sent) = 1 /\ last.sent[1].url = UrlListContinue

\* C11: the backend name the setup command writes into the server
\* configuration is the name the adapter is registered under, so a server
\* dialling the configured backend gets the Dropbox adapter.
C11_BackendSelectsAdapter ==
    IsCall("Dial") =>
        /\ last.backend = RegisteredName
        /\ last.impl # Nil
        /\ last.impl.type = "dropboxImpl"
        /\ last.err = Nil

====
